---- MODULE Spec2Model ----
(***************************************************************************)
(* Model of the stateless JWT authentication subsystem of                  *)
(* better-ADMIN-backend-service: the claim codec (security/jwt.go          *)
(* UserClaim.ConvertMap / NewUserClaim), token issuance, validation and    *)
(* refresh (security/jwt.go JwtAuthentication), and the echo middlewares   *)
(* JwtToken / CheckAuth.                                                   *)
(*                                                                         *)
(* Numbers that pass through encoding/json's map[string]interface{} are    *)
(* float64 values; unsigned integers are kept as bit sequences (most       *)
(* significant bit first, no leading zero) so that the 64-bit width of     *)
(* uint and the 53-bit mantissa of float64 are the real ones.              *)
(***************************************************************************)
EXTENDS Integers, Sequences, FiniteSets, TLC

(***************************************************************************)
(* Unsigned integers as bit sequences                                      *)
(***************************************************************************)
UintBits == 64
MantissaBits == 53

RECURSIVE NatToBits(_)
NatToBits(n) == IF n = 0 THEN << >> ELSE Append(NatToBits(n \div 2), n % 2)

RECURSIVE BitsToNat(_)
BitsToNat(b) ==
    IF b = << >> THEN 0
    ELSE 2 * BitsToNat(SubSeq(b, 1, Len(b) - 1)) + b[Len(b)]

Zeros(k) == [i \in 1..k |-> 0]

\* 2^k + n, for 0 <= n < 2^k
Pow2Plus(k, n) ==
    LET low == NatToBits(n)
    IN  <<1>> \o Zeros(k - Len(low)) \o low

\* 2^k - 1 - n, for 0 <= n < 2^k whose complement keeps the top bit set
Pow2Minus1Minus(k, n) ==
    LET low == NatToBits(n)
        pad == Zeros(k - Len(low)) \o low
    IN  [i \in 1..k |-> 1 - pad[i]]

\* b + 1
RECURSIVE IncBits(_)
IncBits(b) ==
    IF b = << >> THEN <<1>>
    ELSE IF b[Len(b)] = 0 THEN SubSeq(b, 1, Len(b) - 1) \o <<1>>
    ELSE IncBits(SubSeq(b, 1, Len(b) - 1)) \o <<0>>

\* strconv.ParseFloat(s, 64) of a non-negative integer literal: the nearest
\* float64, ties to the even mantissa.  The result is again an integer.
RoundFloat64(b) ==
    IF Len(b) <= MantissaBits THEN b
    ELSE LET kept == SubSeq(b, 1, MantissaBits)
             tail == SubSeq(b, MantissaBits + 1, Len(b))
             rest == \E i \in 2..Len(tail) : tail[i] = 1
             up   == tail[1] = 1 /\ (rest \/ kept[MantissaBits] = 1)
         IN  (IF up THEN IncBits(kept) ELSE kept) \o Zeros(Len(tail))

\* strconv.ParseUint(s, 10, 64) succeeds iff the value fits the uint width
FitsUint(b) == Len(b) <= UintBits


(***************************************************************************)
(* JSON values and Go values                                               *)
(*   k = "num"  a non-negative integer number, bits its value              *)
(*   k = "neg"  a negative number, k = "frac" a non-integer number         *)
(*   k = "str"  a string s, k = "null", k = "arr" an array elems           *)
(* The same shape serves for JSON text and for the interface{} values of   *)
(* a map[string]interface{}; what differs is the precision of "num".       *)
(***************************************************************************)
JNum(b) == [k |-> "num", bits |-> b, s |-> "", elems |-> << >>]
JNeg == [k |-> "neg", bits |-> << >>, s |-> "", elems |-> << >>]
JFrac == [k |-> "frac", bits |-> << >>, s |-> "", elems |-> << >>]
JStr(str) == [k |-> "str", bits |-> << >>, s |-> str, elems |-> << >>]
JNull == [k |-> "null", bits |-> << >>, s |-> "", elems |-> << >>]
JArr(es) == [k |-> "arr", bits |-> << >>, s |-> "", elems |-> es]

\* a Go []string: the nil slice, or a (possibly empty) sequence of strings
NilSlice == [nil |-> TRUE, elems |-> << >>]
Slice(es) == [nil |-> FALSE, elems |-> es]

\* type UserClaim struct { Id uint; Roles []string; Permissions []string }
UserClaim(id, roles, permissions) ==
    [Id |-> id, Roles |-> roles, Permissions |-> permissions]
ZeroClaim == UserClaim(<< >>, NilSlice, NilSlice)

\* json.Marshal of a []string
MarshalSlice(sl) ==
    IF sl.nil THEN JNull
    ELSE JArr([i \in 1..Len(sl.elems) |-> JStr(sl.elems[i])])

\* json.Marshal(c) of a UserClaim: the exact decimal of Id, the tagged names
MarshalClaim(c) ==
    [id |-> JNum(c.Id), roles |-> MarshalSlice(c.Roles),
     permissions |-> MarshalSlice(c.Permissions)]

\* json.Unmarshal of one JSON value into an interface{}: numbers become float64
DecodeAny(v) ==
    IF v.k = "num" THEN JNum(RoundFloat64(v.bits)) ELSE v

\* json.Unmarshal(bytes, &resultMap) into a map[string]interface{}
UnmarshalToMap(obj) == [f \in DOMAIN obj |-> DecodeAny(obj[f])]

\* strconv.FormatFloat(f, 'f', -1, 64) of an integer-valued float64, as
\* encoding/json prints it below 1e21: the shortest decimal that reads back as
\* f.  Below 2^54 that is f itself; 2^64 prints as 18446744073709552000.  (The
\* identifiers of this model have float64 values below 2^54 or equal to 2^64.)
FormatFloat64(b) ==
    IF b = Pow2Plus(UintBits, 0) THEN Pow2Plus(UintBits, 384) ELSE b

\* json.Marshal of one interface{} value
EncodeAny(v) ==
    IF v.k = "num" THEN JNum(FormatFloat64(v.bits)) ELSE v

\* json.Marshal(mapUserClaim)
MarshalMap(m) == [f \in DOMAIN m |-> EncodeAny(m[f])]

\* UserClaim.ConvertMap: Marshal the struct, Unmarshal into a generic map.
\* Neither step can fail on a UserClaim, so the map is the whole result.
ConvertMap(c) == UnmarshalToMap(MarshalClaim(c))

\* json.Unmarshal into the field Id uint `json:"id"`: an absent key and null
\* leave the zero value; a number must be a non-negative integer that fits
IdFieldOk(obj) ==
    \/ "id" \notin DOMAIN obj
    \/ obj["id"].k = "null"
    \/ obj["id"].k = "num" /\ FitsUint(obj["id"].bits)
IdFieldValue(obj) ==
    IF "id" \in DOMAIN obj /\ obj["id"].k = "num" THEN obj["id"].bits ELSE << >>

\* json.Unmarshal into a []string field: absent and null leave nil; an array
\* must hold strings (a null element leaves "")
SliceFieldOk(obj, f) ==
    \/ f \notin DOMAIN obj
    \/ obj[f].k = "null"
    \/ /\ obj[f].k = "arr"
       /\ \A i \in 1..Len(obj[f].elems) : obj[f].elems[i].k \in {"str", "null"}
SliceFieldValue(obj, f) ==
    IF f \in DOMAIN obj /\ obj[f].k = "arr"
    THEN Slice([i \in 1..Len(obj[f].elems) |-> obj[f].elems[i].s])
    ELSE NilSlice

ErrNil == "nil"
ErrJSONUnmarshal == "JSON Unmarshal error"

\* json.Unmarshal(bytes, &claim): keys outside the struct's tags are skipped
UnmarshalClaim(obj) ==
    IF IdFieldOk(obj) /\ SliceFieldOk(obj, "roles") /\ SliceFieldOk(obj, "permissions")
    THEN [ok |-> TRUE, err |-> ErrNil,
          claim |-> UserClaim(IdFieldValue(obj), SliceFieldValue(obj, "roles"),
                              SliceFieldValue(obj, "permissions"))]
    ELSE [ok |-> FALSE, err |-> ErrJSONUnmarshal, claim |-> ZeroClaim]

\* NewUserClaim: Marshal the map, Unmarshal into a UserClaim
NewUserClaim(mapUserClaim) == UnmarshalClaim(MarshalMap(mapUserClaim))


(***************************************************************************)
(* Time.  The clock counts ticks of 1/TicksPerSecond second; time.Time     *)
(* values are ticks, Unix() truncates to whole seconds.                    *)
(***************************************************************************)
TicksPerSecond == 2
Unix(t) == t \div TicksPerSecond
Seconds(n) == n * TicksPerSecond

AccessTokenMinutes == 15
RefreshTokenDays == 7
AccessLifetime == Seconds(AccessTokenMinutes * 60)
RefreshLifetime == Seconds(RefreshTokenDays * 24 * 3600)

(***************************************************************************)
(* Tokens.  A token string is header.payload.signature:                    *)
(*   wf       it splits into three segments that decode to JSON            *)
(*   alg      the header's alg ("" when the header names none)             *)
(*   payload  the JSON object of the claims segment                        *)
(*   sig      the signature segment: the MAC it encodes and the form of    *)
(*            its base64url text                                           *)
(* A MAC is ideal: it is the record of the algorithm, the key and the      *)
(* signed text (header alg and payload), so two MACs are equal exactly     *)
(* when these are.                                                         *)
(***************************************************************************)
JwtSecret == "config.Config.JwtSecret"

HMACAlgs == {"HS256", "HS384", "HS512"}
\* the signing methods github.com/golang-jwt/jwt registers (a sample of the
\* asymmetric ones) and whether Verify can succeed with a []byte key
RegisteredAlgs == HMACAlgs \cup {"RS256", "ES256", "none"}

Mac(alg, key, halg, body) == [alg |-> alg, key |-> key, halg |-> halg, body |-> body]
NoMac == Mac("", "", "", << >>)

\* form: "canon" the encoder's text; "trailing" the last character differs
\* only in the bits base64 does not use; "badchar" a character outside the
\* alphabet
Sig(mac, form) == [mac |-> mac, form |-> form]

Token(alg, payload, sig) == [wf |-> TRUE, alg |-> alg, payload |-> payload, sig |-> sig]
\* a string that is no three-segment token, "" among them
EmptyToken == [wf |-> FALSE, alg |-> "", payload |-> << >>, sig |-> Sig(NoMac, "canon")]

\* jwt.NewWithClaims(jwt.SigningMethodHS256, claims).SignedString(key):
\* the payload is json.Marshal of the MapClaims
SignedString(alg, claims, key) ==
    LET body == MarshalMap(claims)
    IN  Token(alg, body, Sig(Mac(alg, key, alg, body), "canon"))

\* a MapClaims with one more key
WithField(m, f, v) == [g \in DOMAIN m \cup {f} |-> IF g = f THEN v ELSE m[g]]

\* type JwtToken struct { AccessToken, RefreshToken string; RefreshTokenExpires time.Time }
JwtTokenOf(access, refresh, expires) ==
    [AccessToken |-> access, RefreshToken |-> refresh, RefreshTokenExpires |-> expires]
ZeroJwtToken == JwtTokenOf(EmptyToken, EmptyToken, 0)

\* a pair whose refresh token expires before its access token
GenerateJwtTokenShortRefresh(claim, t, u) ==
    LET claimMap == ConvertMap(claim)
        accessTokenClaims ==
            WithField(claimMap, "exp", JNum(NatToBits(Unix(t + AccessLifetime))))
        refreshTokenExpires == u
        refreshTokenClaims ==
            WithField(claimMap, "exp", JNum(NatToBits(Unix(refreshTokenExpires))))
    IN  JwtTokenOf(SignedString("HS256", accessTokenClaims, JwtSecret),
                   SignedString("HS256", refreshTokenClaims, JwtSecret),
                   refreshTokenExpires)

\* JwtAuthentication.GenerateJwtToken; t is the reading of time.Now() for the
\* access token (line 31), u >= t the one for the refresh token (line 43).
\* ConvertMap and SignedString do not fail for a UserClaim and a non-empty
\* secret.
GenerateJwtToken(claim, t, u) ==
    LET claimMap == ConvertMap(claim)
        accessTokenClaims ==
            WithField(claimMap, "exp", JNum(NatToBits(Unix(t + AccessLifetime))))
        refreshTokenExpires == u + RefreshLifetime
        refreshTokenClaims ==
            WithField(claimMap, "exp", JNum(NatToBits(Unix(refreshTokenExpires))))
    IN  JwtTokenOf(SignedString("HS256", accessTokenClaims, JwtSecret),
                   SignedString("HS256", refreshTokenClaims, JwtSecret),
                   refreshTokenExpires)

\* JwtAuthentication.GenerateJwtAccessTokenNeverExpired
GenerateJwtAccessTokenNeverExpired(claim) ==
    SignedString("HS256", ConvertMap(claim), JwtSecret)

(***************************************************************************)
(* jwt.Parse of github.com/golang-jwt/jwt (v3): ParseUnverified, then the  *)
(* claims' Valid(), then Method.Verify; the flags of both are collected    *)
(* in one ValidationError.                                                 *)
(***************************************************************************)
\* int64(f) of a numeric claim
NumericClaim(m, f) == BitsToNat(m[f].bits)
HasNumber(m, f) == f \in DOMAIN m /\ m[f].k = "num"

\* MapClaims.VerifyExpiresAt(now, false) / verifyExp: an absent or zero exp
\* is no expiry; otherwise now <= exp
VerifyExpiresAt(m, nowSec) ==
    IF "exp" \notin DOMAIN m THEN TRUE
    ELSE IF ~HasNumber(m, "exp") THEN FALSE
    ELSE NumericClaim(m, "exp") = 0 \/ nowSec <= NumericClaim(m, "exp")

\* MapClaims.VerifyIssuedAt(now, false) / verifyIat
VerifyIssuedAt(m, nowSec) ==
    IF "iat" \notin DOMAIN m THEN TRUE
    ELSE IF ~HasNumber(m, "iat") THEN FALSE
    ELSE NumericClaim(m, "iat") = 0 \/ nowSec >= NumericClaim(m, "iat")

\* MapClaims.VerifyNotBefore(now, false) / verifyNbf
VerifyNotBefore(m, nowSec) ==
    IF "nbf" \notin DOMAIN m THEN TRUE
    ELSE IF ~HasNumber(m, "nbf") THEN FALSE
    ELSE NumericClaim(m, "nbf") = 0 \/ nowSec >= NumericClaim(m, "nbf")

\* MapClaims.Valid(): the ValidationError flags of the time claims
ClaimsErrors(m, nowSec) ==
    (IF VerifyExpiresAt(m, nowSec) THEN {} ELSE {"Expired"})
    \cup (IF VerifyIssuedAt(m, nowSec) THEN {} ELSE {"IssuedAt"})
    \cup (IF VerifyNotBefore(m, nowSec) THEN {} ELSE {"NotValidYet"})

\* DecodeSegment of the signature: base64url, not strict, so unused trailing
\* bits are dropped; a character outside the alphabet is an error
SigDecodes(sig) == sig.form \in {"canon", "trailing"}

\* token.Method.Verify(signingString, signature, key) with the []byte secret:
\* the HMAC methods recompute the MAC; the none method and the asymmetric
\* methods refuse a []byte key
MethodVerify(tok, key) ==
    /\ tok.alg \in HMACAlgs
    /\ SigDecodes(tok.sig)
    /\ tok.sig.mac = Mac(tok.alg, key, tok.alg, tok.payload)

\* Parser.ParseWithClaims: [errors |-> flags, valid, alg, claims]
Parse(tok, nowSec) ==
    IF ~tok.wf
    THEN [errors |-> {"Malformed"}, valid |-> FALSE, alg |-> "", claims |-> << >>]
    ELSE IF tok.alg \notin RegisteredAlgs
    THEN [errors |-> {"Unverifiable"}, valid |-> FALSE, alg |-> tok.alg,
          claims |-> UnmarshalToMap(tok.payload)]
    ELSE LET claims == UnmarshalToMap(tok.payload)
             errs == ClaimsErrors(claims, nowSec)
                     \cup (IF MethodVerify(tok, JwtSecret) THEN {}
                           ELSE {"SignatureInvalid"})
         IN  [errors |-> errs, valid |-> errs = {}, alg |-> tok.alg, claims |-> claims]

InvalidAccessToken == "invalid access token"
AccessTokenExpired == "access token expired"

Failure(e) == [ok |-> FALSE, err |-> e, claim |-> ZeroClaim]

\* JwtAuthentication.ConvertTokenUserClaim at clock reading t
ConvertTokenUserClaim(tok, t) ==
    LET parsedToken == Parse(tok, Unix(t))
    IN  IF parsedToken.errors # {}
        THEN IF parsedToken.errors \cap {"Expired", "NotValidYet"} # {}
             THEN Failure(AccessTokenExpired)
             ELSE Failure(InvalidAccessToken)
        ELSE IF parsedToken.alg # "HS256" THEN Failure(InvalidAccessToken)
        ELSE IF ~parsedToken.valid THEN Failure(InvalidAccessToken)
        ELSE NewUserClaim(parsedToken.claims)

\* JwtAuthentication.RefreshAccessToken at clock reading t:
\* [ok, err, token returned, generated the pair built on the way].  Of the
\* pair only the access token is returned, which depends on one reading.
RefreshAccessToken(refreshToken, t) ==
    LET res == ConvertTokenUserClaim(refreshToken, t)
        jwtToken == GenerateJwtToken(res.claim, t, t)
    IN  IF ~res.ok
        THEN [ok |-> FALSE, err |-> res.err, token |-> EmptyToken,
              generated |-> ZeroJwtToken]
        ELSE [ok |-> TRUE, err |-> ErrNil, token |-> jwtToken.AccessToken,
              generated |-> jwtToken]

\* JwtAuthentication.ValidateToken
ValidateToken(tok, t) == ConvertTokenUserClaim(tok, t).err


(***************************************************************************)
(* Bounds and input sets                                                   *)
(***************************************************************************)
Epoch == 1
MaxAdvances == 4
\* how often the clock may have moved before the sign-in
MaxSignInAdvances == 1
MaxListLen == 2

Names == {"admin", "read", "write"}
RECURSIVE SeqsUpTo(_, _)
SeqsUpTo(S, n) ==
    IF n = 0 THEN {<< >>}
    ELSE LET shorter == SeqsUpTo(S, n - 1)
         IN  shorter \cup {Append(q, x) : q \in {r \in shorter : Len(r) = n - 1}, x \in S}
Slices == {NilSlice} \cup {Slice(q) : q \in SeqsUpTo(Names, MaxListLen)}

\* identifiers: small ones, the neighbourhood of 2^53, the top of uint64
SmallIds == {NatToBits(1), NatToBits(42)}
BigIds == {Pow2Plus(MantissaBits, 0), Pow2Plus(MantissaBits, 1),
           Pow2Plus(MantissaBits, 2), Pow2Plus(MantissaBits, 3),
           Pow2Minus1Minus(UintBits, 0), Pow2Minus1Minus(UintBits, 1023)}
Ids == {NatToBits(0)} \cup SmallIds \cup BigIds
Claims == {UserClaim(i, r, p) : i \in Ids, r \in Slices, p \in Slices}

\* the members that sign in
SessionClaims ==
    {UserClaim(NatToBits(42), Slice(<<"admin">>), p) :
        p \in {NilSlice, Slice(<<"read", "write">>)}}
    \cup {UserClaim(i, Slice(<<"admin">>), NilSlice) :
        i \in {Pow2Plus(MantissaBits, 1), Pow2Minus1Minus(UintBits, 0)}}

\* how far the clock moves between two calls
Deltas == {1, AccessLifetime, RefreshLifetime - AccessLifetime}

\* how far the clock moves between the two readings of GenerateJwtToken
Lags == {0, 1}

(***************************************************************************)
(* State                                                                   *)
(***************************************************************************)
VARIABLES
    now,        \* the clock, in ticks
    advances,   \* how often the clock has moved
    signedIn,   \* whether a member has signed in
    user,       \* the UserClaim the sign-in was for
    issuedAt,   \* the clock reading of the sign-in
    pair,       \* the JwtToken the sign-in returned
    fresh,      \* the access token the last successful refresh returned
    last,       \* the last call of JwtAuthentication and what it returned
    presented,  \* a token string handed to the validator from outside
    mapIn,      \* a map[string]interface{} handed to the codec
    reqs,       \* the HTTP requests in flight, by request
    jar,        \* the refreshToken cookie in the browser
    ctl,        \* the AuthController request being served
    lastAccessAt \* the members' last-access times, by Id (0: never)

vars == <<now, advances, signedIn, user, issuedAt, pair, fresh, last,
          presented, mapIn, reqs, jar, ctl, lastAccessAt>>
sessionVars == <<signedIn, user, issuedAt, pair, fresh>>
ctlVars == <<jar, ctl, lastAccessAt>>

\* cleared: the browser was told to drop the cookie (logout)
NoCookie == [has |-> FALSE, value |-> EmptyToken, cleared |-> FALSE]
\* a controller request: the refreshToken cookie it carries (has, value; src
\* is where the client took it from), the handler's position pc and local
\* accessToken, the response (status, body), and what the handler has done
\* so far (validations of the cookie token, generated a new pair, updated
\* the last-access time, the update failed)
IdleCtl ==
    [op |-> "none", pc |-> "idle", src |-> "", has |-> FALSE, value |-> EmptyToken,
     accessToken |-> EmptyToken, status |-> 0, body |-> EmptyToken,
     validations |-> 0, generated |-> FALSE, updated |-> FALSE,
     updateFailed |-> FALSE]
NoAccess == [i \in Ids |-> 0]

\* the request-scoped context: the slot helpers.ContextHelper() keeps the
\* *UserClaim in
EmptyContext == [has |-> FALSE, claim |-> ZeroClaim]

Requests == {"r1", "r2"}
IdleRequest ==
    [pc |-> "idle", header |-> << >>, cred |-> "", guarded |-> FALSE,
     ctx |-> EmptyContext, status |-> 0, message |-> "", trace |-> << >>,
     seen |-> EmptyContext, validated |-> FALSE, handed |-> << >>]

NoCall ==
    [op |-> "none", which |-> "", res |-> Failure(ErrNil), out |-> EmptyToken,
     gen |-> ZeroJwtToken]

Held(which) ==
    CASE which = "access" -> pair.AccessToken
      [] which = "refresh" -> pair.RefreshToken
      [] OTHER -> fresh

Init ==
    /\ now = Seconds(Epoch)
    /\ advances = 0
    /\ signedIn = FALSE
    /\ user = ZeroClaim
    /\ issuedAt = 0
    /\ pair = ZeroJwtToken
    /\ fresh = EmptyToken
    /\ last = NoCall
    /\ presented = EmptyToken
    /\ mapIn = [f \in {} |-> JNull]
    /\ reqs = [r \in Requests |-> IdleRequest]
    /\ jar = NoCookie
    /\ ctl = IdleCtl
    /\ lastAccessAt = NoAccess

\* time passes
Advance(d) ==
    /\ advances < MaxAdvances
    /\ now' = now + d
    /\ advances' = advances + 1
    /\ last' = NoCall
    /\ UNCHANGED <<signedIn, user, issuedAt, pair, fresh, presented, mapIn, reqs, ctlVars>>

\* a sign-in endpoint calls GenerateJwtToken for the member's claim
SignIn(c, lag) ==
    /\ ~signedIn
    /\ advances <= MaxSignInAdvances
    /\ signedIn' = TRUE
    /\ user' = c
    /\ issuedAt' = now
    /\ now' = now + lag
    /\ pair' = GenerateJwtToken(c, now, now + lag)
    /\ last' = [NoCall EXCEPT !.op = "signin", !.gen = pair']
    /\ UNCHANGED <<advances, fresh, presented, mapIn, reqs, ctlVars>>

\* ConvertTokenUserClaim on a token the client holds
Validate(which) ==
    /\ signedIn
    /\ Held(which).wf
    /\ last' = [NoCall EXCEPT !.op = "validate", !.which = which,
                              !.res = ConvertTokenUserClaim(Held(which), now)]
    /\ UNCHANGED <<now, advances, signedIn, user, issuedAt, pair, fresh,
                   presented, mapIn, reqs, ctlVars>>

\* RefreshAccessToken on a token the client holds; the client keeps the
\* access token it gets back
Refresh(which) ==
    /\ signedIn
    /\ Held(which).wf
    /\ LET r == RefreshAccessToken(Held(which), now)
       IN  /\ last' = [op |-> "refresh", which |-> which,
                       res |-> [ok |-> r.ok, err |-> r.err, claim |-> ZeroClaim],
                       out |-> r.token, gen |-> r.generated]
           /\ fresh' = IF r.ok THEN r.token ELSE fresh
    /\ UNCHANGED <<now, advances, signedIn, user, issuedAt, pair,
                   presented, mapIn, reqs, ctlVars>>

Next ==
    \/ \E d \in Deltas : Advance(d)
    \/ \E c \in SessionClaims, lag \in Lags : SignIn(c, lag)
    \/ \E w \in {"access", "refresh", "fresh"} : Validate(w)
    \/ \E w \in {"access", "refresh", "fresh"} : Refresh(w)

Spec == Init /\ [][Next]_vars


(***************************************************************************)
(* The codec on its own: a UserClaim is encoded with ConvertMap, a map is  *)
(* decoded with NewUserClaim.                                              *)
(***************************************************************************)
EmptyMap == [f \in {} |-> JNull]
OptField(f, V) == {EmptyMap} \cup {f :> v : v \in V}

\* the shapes an "id" can have in a map[string]interface{}
IdShapes == {JNull, JNum(NatToBits(0)), JNum(NatToBits(42)),
             JNum(Pow2Plus(UintBits, 0)), JNeg, JFrac, JStr("42"), JArr(<< >>)}
RolesShapes == {JNull, JArr(<<JStr("admin")>>), JStr("admin"),
                JArr(<<JNum(NatToBits(1))>>)}
PayloadMaps ==
    {a @@ b @@ c @@ d :
        a \in OptField("id", IdShapes),
        b \in OptField("roles", RolesShapes),
        c \in OptField("permissions", {JArr(<<JStr("read"), JStr("write")>>)}),
        d \in OptField("exp", {JNum(NatToBits(Epoch))})
              \cup OptField("tenant", {JStr("acme")})}

InitCodec ==
    /\ now = Seconds(Epoch)
    /\ advances = 0
    /\ signedIn = FALSE
    /\ issuedAt = 0
    /\ pair = ZeroJwtToken
    /\ fresh = EmptyToken
    /\ last = NoCall
    /\ presented = EmptyToken
    /\ reqs = [r \in Requests |-> IdleRequest]
    /\ jar = NoCookie
    /\ ctl = IdleCtl
    /\ lastAccessAt = NoAccess
    /\ \/ user \in Claims /\ mapIn = EmptyMap
       \/ user = ZeroClaim /\ mapIn \in PayloadMaps

\* claim.ConvertMap()
Encode ==
    /\ last.op = "none"
    /\ mapIn = EmptyMap
    /\ mapIn' = ConvertMap(user)
    /\ last' = [NoCall EXCEPT !.op = "ConvertMap"]
    /\ UNCHANGED <<now, advances, sessionVars, presented, reqs, ctlVars>>

\* NewUserClaim(mapIn): after ConvertMap it closes the round trip
Decode ==
    /\ last.op \in {"none", "ConvertMap"}
    /\ last' = [NoCall EXCEPT !.op = "NewUserClaim",
                              !.which = IF last.op = "ConvertMap" THEN "roundtrip"
                                        ELSE "payload",
                              !.res = NewUserClaim(mapIn)]
    /\ UNCHANGED <<now, advances, sessionVars, presented, mapIn, reqs, ctlVars>>

NextCodec == Encode \/ Decode

SpecCodec == InitCodec /\ [][NextCodec]_vars

(***************************************************************************)
(* The validator on its own: any token string, at any clock reading.       *)
(***************************************************************************)
\* the expiry the presented tokens carry, in Unix seconds
PresentedExp == Epoch + AccessTokenMinutes * 60

PresentedPayloads ==
    {a @@ b @@ c @@ ("roles" :> JArr(<<JStr("admin")>>)) :
        a \in OptField("id", {JNum(NatToBits(42)), JStr("42"),
                              JNum(Pow2Plus(UintBits, 0))}),
        b \in OptField("exp", {JNum(NatToBits(0)), JNum(NatToBits(PresentedExp))}),
        c \in OptField("nbf", {JNum(NatToBits(PresentedExp))})}

\* who produced the signature segment: the holder of the process secret,
\* somebody with another key, or nobody (an empty segment)
PresentedSig(alg, body, signer, form) ==
    LET macAlg == IF alg \in HMACAlgs THEN alg ELSE "HS256"
    IN  CASE signer = "secret" -> Sig(Mac(macAlg, JwtSecret, alg, body), form)
          [] signer = "attacker" -> Sig(Mac(macAlg, "another key", alg, body), form)
          [] OTHER -> Sig(NoMac, form)

PresentedTokens ==
    {EmptyToken} \cup
    {Token(alg, body, PresentedSig(alg, body, signer, form)) :
        alg \in {"HS256", "HS384", "RS256", "none", "XX", ""},
        body \in PresentedPayloads,
        signer \in {"secret", "attacker", "unsigned"},
        form \in {"canon", "trailing", "badchar"}}

VerifyTimes ==
    {Seconds(Epoch), Seconds(PresentedExp) - 1, Seconds(PresentedExp),
     Seconds(PresentedExp + 1) - 1, Seconds(PresentedExp + 1)}

InitValidate ==
    /\ now \in VerifyTimes
    /\ advances = 0
    /\ signedIn = FALSE
    /\ user = ZeroClaim
    /\ issuedAt = 0
    /\ pair = ZeroJwtToken
    /\ fresh = EmptyToken
    /\ last = NoCall
    /\ presented \in PresentedTokens
    /\ mapIn = EmptyMap
    /\ reqs = [r \in Requests |-> IdleRequest]
    /\ jar = NoCookie
    /\ ctl = IdleCtl
    /\ lastAccessAt = NoAccess

\* ConvertTokenUserClaim(presented)
ValidatePresented ==
    /\ last.op = "none"
    /\ last' = [NoCall EXCEPT !.op = "validate", !.which = "presented",
                              !.res = ConvertTokenUserClaim(presented, now)]
    /\ UNCHANGED <<now, advances, sessionVars, presented, mapIn, reqs, ctlVars>>

\* RefreshAccessToken(presented)
RefreshPresented ==
    /\ last.op = "none"
    /\ LET r == RefreshAccessToken(presented, now)
       IN  last' = [op |-> "refresh", which |-> "presented",
                    res |-> [ok |-> r.ok, err |-> r.err, claim |-> ZeroClaim],
                    out |-> r.token, gen |-> r.generated]
    /\ UNCHANGED <<now, advances, sessionVars, presented, mapIn, reqs, ctlVars>>

NextValidate == ValidatePresented \/ RefreshPresented

SpecValidate == InitValidate /\ [][NextValidate]_vars


(***************************************************************************)
(* The middleware chain.  An Authorization header is a sequence of pieces: *)
(* the literals "Bearer", "bearer", "Basic", a space " ", a tab "\t", and  *)
(* "TOK", the text of the credential the request carries.                  *)
(***************************************************************************)
ClaimA == UserClaim(NatToBits(42), Slice(<<"admin">>), Slice(<<"read", "write">>))
ClaimB == UserClaim(NatToBits(1), Slice(<<"member">>), NilSlice)

\* the credentials a request can carry: A's access token, B's refresh token,
\* A's access token with a signature made with another key
Credentials == {"A", "B", "T"}
CredentialToken(cred) ==
    LET a == GenerateJwtToken(ClaimA, Seconds(Epoch), Seconds(Epoch)).AccessToken
    IN  CASE cred = "A" -> a
          [] cred = "B" -> GenerateJwtToken(ClaimB, Seconds(Epoch), Seconds(Epoch)).RefreshToken
          [] OTHER -> [a EXCEPT !.sig.mac.key = "another key"]

Headers ==
    {<< >>,
     <<"Bearer", " ", "TOK">>,
     <<"Bearer", " ", " ", "TOK", " ">>,
     <<"Bearer", "\t", "TOK">>,
     <<"Bearer", " ", "TOK", "\t">>,
     <<"bearer", " ", "TOK">>,
     <<"Basic", " ", "TOK">>,
     <<"Basic", " ", "Bearer", " ", "TOK">>,
     <<"TOK">>}

\* strings.Index(s, piece): the first position, 0 for Go's -1
IndexOf(h, piece) ==
    IF \E i \in 1..Len(h) : h[i] = piece
    THEN CHOOSE i \in 1..Len(h) : h[i] = piece /\ \A j \in 1..(i - 1) : h[j] # piece
    ELSE 0

\* strings.Trim(s, " ")
RECURSIVE TrimSpaces(_)
TrimSpaces(h) ==
    IF h = << >> THEN h
    ELSE IF h[1] = " " THEN TrimSpaces(Tail(h))
    ELSE IF h[Len(h)] = " " THEN TrimSpaces(SubSeq(h, 1, Len(h) - 1))
    ELSE h

\* an extraction that accepts only headers with the "Bearer" literal
ExtractRequiresBearer(h) ==
    LET index == IndexOf(h, "Bearer")
    IN  IF index > 0 THEN TrimSpaces(SubSeq(h, index + 1, Len(h))) ELSE << >>

\* JwtToken, lines 26-33: what is left of the header after the "Bearer"
ExtractAccessToken(h) ==
    LET index == IndexOf(h, "Bearer")
    IN  IF index > 0 THEN TrimSpaces(SubSeq(h, index + 1, Len(h))) ELSE h

\* the token string the extracted text is: the credential itself; the
\* credential followed by other characters (they end up in the signature
\* segment); anything else has no decodable header segment
StringToken(text, cred) ==
    IF text = << >> \/ text[1] # "TOK" THEN EmptyToken
    ELSE IF Len(text) = 1 THEN CredentialToken(cred)
    ELSE [CredentialToken(cred) EXCEPT !.sig.form = "badchar"]

\* helpers.ContextHelper().SetUserClaim / GetUserClaim
SetUserClaim(ctx, userClaim) == [has |-> TRUE, claim |-> userClaim]
GetUserClaim(ctx) == [ok |-> ctx.has, claim |-> ctx.claim]

StatusUnauthorized == 401
StatusOK == 200

InitHttp ==
    /\ now \in {Seconds(Epoch), Seconds(Epoch) + AccessLifetime + Seconds(1)}
    /\ advances = 0
    /\ signedIn = FALSE
    /\ user = ZeroClaim
    /\ issuedAt = 0
    /\ pair = ZeroJwtToken
    /\ fresh = EmptyToken
    /\ last = NoCall
    /\ presented = EmptyToken
    /\ mapIn = EmptyMap
    /\ reqs = [r \in Requests |-> IdleRequest]
    /\ jar = NoCookie
    /\ ctl = IdleCtl
    /\ lastAccessAt = NoAccess

httpFrame == <<now, advances, sessionVars, last, presented, mapIn, ctlVars>>

\* the handler the middleware passes the request on to
NextOf(req, from) ==
    IF from = "JwtToken" /\ req.guarded THEN "CheckAuth" ELSE "handler"

\* a request arrives at a route; the chain is JwtToken, then CheckAuth on a
\* guarded route, then the route's handler
Arrive(r, h, cred, guarded) ==
    /\ reqs[r].pc = "idle"
    /\ reqs' = [reqs EXCEPT ![r] =
                   [IdleRequest EXCEPT !.pc = "JwtToken", !.header = h,
                                       !.cred = IF h = << >> THEN "" ELSE cred,
                                       !.guarded = guarded]]
    /\ UNCHANGED httpFrame

\* JwtToken without the early return for an empty header
JwtTokenValidatesEmpty(r) ==
    /\ reqs[r].pc = "JwtToken"
    /\ LET req == reqs[r]
           accessToken == ExtractAccessToken(req.header)
           res == ConvertTokenUserClaim(StringToken(accessToken, req.cred), now)
       IN  reqs' = [reqs EXCEPT ![r] =
                IF ~res.ok
                THEN [req EXCEPT !.pc = "done", !.status = StatusUnauthorized,
                                 !.message = res.err,
                                 !.validated = TRUE, !.handed = accessToken,
                                 !.trace = Append(req.trace, "JwtToken")]
                ELSE [req EXCEPT !.pc = NextOf(req, "JwtToken"),
                                 !.ctx = SetUserClaim(req.ctx, res.claim),
                                 !.validated = TRUE, !.handed = accessToken,
                                 !.trace = Append(req.trace, "JwtToken")]]
    /\ UNCHANGED httpFrame

\* JwtToken that keeps the claim in one slot shared by all requests
JwtTokenSharedSlot(r) ==
    /\ reqs[r].pc = "JwtToken"
    /\ LET req == reqs[r]
           accessToken == ExtractAccessToken(req.header)
           res == ConvertTokenUserClaim(StringToken(accessToken, req.cred), now)
       IN  reqs' = [q \in Requests |->
                IF q # r
                THEN IF Len(req.header) # 0 /\ res.ok
                     THEN [reqs[q] EXCEPT !.ctx = SetUserClaim(reqs[q].ctx, res.claim)]
                     ELSE reqs[q]
                ELSE IF Len(req.header) = 0
                THEN [req EXCEPT !.pc = NextOf(req, "JwtToken"),
                                 !.trace = Append(req.trace, "JwtToken")]
                ELSE IF ~res.ok
                THEN [req EXCEPT !.pc = "done", !.status = StatusUnauthorized,
                                 !.message = res.err,
                                 !.validated = TRUE, !.handed = accessToken,
                                 !.trace = Append(req.trace, "JwtToken")]
                ELSE [req EXCEPT !.pc = NextOf(req, "JwtToken"),
                                 !.ctx = SetUserClaim(req.ctx, res.claim),
                                 !.validated = TRUE, !.handed = accessToken,
                                 !.trace = Append(req.trace, "JwtToken")]]
    /\ UNCHANGED httpFrame

\* JwtToken that passes a request on although validation failed
JwtTokenIgnoresError(r) ==
    /\ reqs[r].pc = "JwtToken"
    /\ LET req == reqs[r]
           accessToken == ExtractAccessToken(req.header)
           res == ConvertTokenUserClaim(StringToken(accessToken, req.cred), now)
       IN  reqs' = [reqs EXCEPT ![r] =
                IF Len(req.header) = 0
                THEN [req EXCEPT !.pc = NextOf(req, "JwtToken"),
                                 !.trace = Append(req.trace, "JwtToken")]
                ELSE IF ~res.ok
                THEN [req EXCEPT !.pc = NextOf(req, "JwtToken"),
                                 !.validated = TRUE, !.handed = accessToken,
                                 !.trace = Append(req.trace, "JwtToken")]
                ELSE [req EXCEPT !.pc = NextOf(req, "JwtToken"),
                                 !.ctx = SetUserClaim(req.ctx, res.claim),
                                 !.validated = TRUE, !.handed = accessToken,
                                 !.trace = Append(req.trace, "JwtToken")]]
    /\ UNCHANGED httpFrame

\* the JwtToken middleware
JwtToken(r) ==
    /\ reqs[r].pc = "JwtToken"
    /\ LET req == reqs[r]
           accessToken == ExtractAccessToken(req.header)
           res == ConvertTokenUserClaim(StringToken(accessToken, req.cred), now)
       IN  reqs' = [reqs EXCEPT ![r] =
                IF Len(req.header) = 0
                THEN [req EXCEPT !.pc = NextOf(req, "JwtToken"),
                                 !.trace = Append(req.trace, "JwtToken")]
                ELSE IF ~res.ok
                THEN [req EXCEPT !.pc = "done", !.status = StatusUnauthorized,
                                 !.message = res.err,
                                 !.validated = TRUE, !.handed = accessToken,
                                 !.trace = Append(req.trace, "JwtToken")]
                ELSE [req EXCEPT !.pc = NextOf(req, "JwtToken"),
                                 !.ctx = SetUserClaim(req.ctx, res.claim),
                                 !.validated = TRUE, !.handed = accessToken,
                                 !.trace = Append(req.trace, "JwtToken")]]
    /\ UNCHANGED httpFrame

\* CheckAuth that does not look at the context
CheckAuthPassThrough(r) ==
    /\ reqs[r].pc = "CheckAuth"
    /\ LET req == reqs[r]
       IN  reqs' = [reqs EXCEPT ![r] =
                [req EXCEPT !.pc = NextOf(req, "CheckAuth"),
                            !.trace = Append(req.trace, "CheckAuth")]]
    /\ UNCHANGED httpFrame

\* the CheckAuth middleware
CheckAuth(r) ==
    /\ reqs[r].pc = "CheckAuth"
    /\ LET req == reqs[r]
       IN  reqs' = [reqs EXCEPT ![r] =
                IF ~GetUserClaim(req.ctx).ok
                THEN [req EXCEPT !.pc = "done", !.status = StatusUnauthorized,
                                 !.message = "Please provide valid credentials",
                                 !.trace = Append(req.trace, "CheckAuth")]
                ELSE [req EXCEPT !.pc = NextOf(req, "CheckAuth"),
                                 !.trace = Append(req.trace, "CheckAuth")]]
    /\ UNCHANGED httpFrame

\* the route's handler runs and sees the request's context
Handler(r) ==
    /\ reqs[r].pc = "handler"
    /\ LET req == reqs[r]
       IN  reqs' = [reqs EXCEPT ![r] =
                [req EXCEPT !.pc = "done", !.status = StatusOK,
                            !.seen = req.ctx,
                            !.trace = Append(req.trace, "handler")]]
    /\ UNCHANGED httpFrame

NextHttp ==
    \E r \in Requests :
        \/ \E h \in Headers, cred \in Credentials, g \in BOOLEAN : Arrive(r, h, cred, g)
        \/ JwtToken(r)
        \/ CheckAuth(r)
        \/ Handler(r)

SpecHttp == InitHttp /\ [][NextHttp]_vars


(***************************************************************************)
(* Service tokens: GenerateJwtAccessTokenNeverExpired for a member, and     *)
(* ConvertTokenUserClaim on the token as the clock moves.                  *)
(***************************************************************************)
InitService ==
    /\ now = Seconds(Epoch)
    /\ advances = 0
    /\ signedIn = FALSE
    /\ user \in SessionClaims
    /\ issuedAt = 0
    /\ pair = ZeroJwtToken
    /\ fresh = EmptyToken
    /\ last = NoCall
    /\ presented = EmptyToken
    /\ mapIn = [f \in {} |-> JNull]
    /\ reqs = [r \in Requests |-> IdleRequest]
    /\ jar = NoCookie
    /\ ctl = IdleCtl
    /\ lastAccessAt = NoAccess

IssueNeverExpired ==
    /\ ~presented.wf
    /\ presented' = GenerateJwtAccessTokenNeverExpired(user)
    /\ last' = [NoCall EXCEPT !.op = "issue", !.which = "service", !.out = presented']
    /\ UNCHANGED <<now, advances, sessionVars, mapIn, reqs, ctlVars>>

ValidateService ==
    /\ presented.wf
    /\ last' = [NoCall EXCEPT !.op = "validate", !.which = "service",
                              !.res = ConvertTokenUserClaim(presented, now)]
    /\ UNCHANGED <<now, advances, sessionVars, presented, mapIn, reqs, ctlVars>>

NextService ==
    \/ \E d \in Deltas : Advance(d)
    \/ IssueNeverExpired
    \/ ValidateService

SpecService == InitService /\ [][NextService]_vars

(***************************************************************************)
(* AuthController: the sign-in, check, logout and refresh endpoints, one   *)
(* request at a time.  The client sends the cookie of the browser's jar,   *)
(* a copy of the sign-in's refresh token it kept, or an empty cookie.       *)
(* refreshAccessToken takes two steps, so the clock can move between       *)
(* RefreshAccessToken and logMemberAccessAtByToken; a response is kept     *)
(* until the clock moves.  The sign-in service,                            *)
(* the member service and the error helper are outside the sources.        *)
(***************************************************************************)
StatusBadRequest == 400
StatusNoContent == 204
StatusNotAcceptable == 406
StatusInternalServerError == 500

CookieSources == {"jar", "kept", "empty"}
\* ctx.Request.Cookie("refreshToken")
RequestCookie(src) ==
    CASE src = "jar" -> [has |-> jar.has, value |-> jar.value]
      [] src = "kept" -> [has |-> TRUE, value |-> pair.RefreshToken]
      [] OTHER -> [has |-> TRUE, value |-> EmptyToken]

\* a new request with the cookie of src
Incoming(op, src) ==
    [IdleCtl EXCEPT !.op = op, !.src = src, !.has = RequestCookie(src).has,
                    !.value = RequestCookie(src).value]

InitCtl ==
    /\ now = Seconds(Epoch)
    /\ advances = 0
    /\ signedIn = FALSE
    /\ user = ZeroClaim
    /\ issuedAt = 0
    /\ pair = ZeroJwtToken
    /\ fresh = EmptyToken
    /\ last = NoCall
    /\ presented = EmptyToken
    /\ mapIn = [f \in {} |-> JNull]
    /\ reqs = [r \in Requests |-> IdleRequest]
    /\ jar = NoCookie
    /\ ctl = IdleCtl
    /\ lastAccessAt = NoAccess

ctlFrame == <<advances, fresh, last, presented, mapIn, reqs>>

\* the members who sign in
CtlClaims == {c \in SessionClaims : c.Permissions = NilSlice}

\* how far the clock moves between two steps of the controller
CtlDeltas == {1, RefreshLifetime}

\* the clock moves; a response that has been sent is gone
AdvanceCtl(d) ==
    /\ advances < MaxAdvances
    /\ now' = now + d
    /\ advances' = advances + 1
    /\ ctl' = IF ctl.pc = "done" THEN IdleCtl ELSE ctl
    /\ UNCHANGED <<sessionVars, last, presented, mapIn, reqs, jar, lastAccessAt>>

\* AuthController.authWithSignIdPassword for a member the sign-in service
\* accepts: the pair of GenerateJwtToken, the cookie, 200 {accessToken}
SignInEndpoint(c, lag) ==
    /\ ctl.pc \in {"idle", "done"}
    /\ ~signedIn
    /\ signedIn' = TRUE
    /\ user' = c
    /\ issuedAt' = now
    /\ now' = now + lag
    /\ pair' = GenerateJwtToken(c, now, now + lag)
    /\ jar' = [has |-> TRUE, value |-> pair'.RefreshToken, cleared |-> FALSE]
    /\ ctl' = [IdleCtl EXCEPT !.op = "signin", !.pc = "done", !.status = StatusOK,
                              !.body = pair'.AccessToken]
    /\ UNCHANGED <<ctlFrame, lastAccessAt>>

\* AuthController.checkAuth
CheckAuthEndpoint(src) ==
    /\ ctl.pc \in {"idle", "done"}
    /\ src = "kept" => signedIn
    /\ LET req == Incoming("check", src)
       IN  ctl' =
             IF ~req.has \/ req.value = EmptyToken
             THEN [req EXCEPT !.pc = "done", !.status = StatusNotAcceptable]
             ELSE IF ValidateToken(req.value, now) # ErrNil
             THEN [req EXCEPT !.pc = "done", !.status = StatusNotAcceptable,
                              !.validations = 1]
             ELSE [req EXCEPT !.pc = "done", !.status = StatusNoContent,
                              !.validations = 1]
    /\ UNCHANGED <<now, sessionVars, ctlFrame, jar, lastAccessAt>>

\* AuthController.logout: the response tells the client to drop the cookie
LogoutEndpoint(src) ==
    /\ ctl.pc \in {"idle", "done"}
    /\ src = "kept" => signedIn
    /\ LET req == Incoming("logout", src)
       IN  /\ ctl' = IF ~req.has
                     THEN [req EXCEPT !.pc = "done", !.status = StatusOK]
                     ELSE [req EXCEPT !.pc = "done", !.status = StatusNoContent]
           /\ jar' = IF req.has /\ src = "jar"
                     THEN [has |-> FALSE, value |-> EmptyToken, cleared |-> TRUE]
                     ELSE jar
    /\ UNCHANGED <<now, sessionVars, ctlFrame, lastAccessAt>>

\* AuthController.refreshAccessToken up to the call of RefreshAccessToken
RefreshStart(src) ==
    /\ ctl.pc \in {"idle", "done"}
    /\ src = "kept" => signedIn
    /\ LET req == Incoming("refresh", src)
           r == RefreshAccessToken(req.value, now)
       IN  ctl' =
             IF ~req.has
             THEN [req EXCEPT !.pc = "done", !.status = StatusBadRequest]
             ELSE IF ~r.ok
             THEN [req EXCEPT !.pc = "done", !.status = StatusInternalServerError,
                              !.validations = 1]
             ELSE [req EXCEPT !.pc = "log", !.accessToken = r.token,
                              !.validations = 1, !.generated = TRUE]
    /\ UNCHANGED <<now, sessionVars, ctlFrame, jar, lastAccessAt>>

\* the rest of it that answers 200 although the update failed
RefreshLogIgnoresUpdate(updated) ==
    /\ ctl.pc = "log"
    /\ LET res == ConvertTokenUserClaim(ctl.value, now)
       IN  IF ~res.ok
           THEN /\ ctl' = [ctl EXCEPT !.pc = "done",
                                      !.status = StatusInternalServerError,
                                      !.validations = 2]
                /\ UNCHANGED lastAccessAt
           ELSE /\ ctl' = [ctl EXCEPT !.pc = "done",
                                      !.status = StatusOK,
                                      !.body = ctl.accessToken,
                                      !.validations = 2, !.updated = updated,
                                      !.updateFailed = ~updated]
                /\ lastAccessAt' = IF updated
                                   THEN [lastAccessAt EXCEPT ![res.claim.Id] = now]
                                   ELSE lastAccessAt
    /\ UNCHANGED <<now, sessionVars, ctlFrame, jar>>

\* the rest of AuthController.refreshAccessToken: logMemberAccessAtByToken
\* and the response; updated says whether UpdateMemberLastAccessAt succeeds
RefreshLog(updated) ==
    /\ ctl.pc = "log"
    /\ LET res == ConvertTokenUserClaim(ctl.value, now)
       IN  IF ~res.ok
           THEN /\ ctl' = [ctl EXCEPT !.pc = "done",
                                      !.status = StatusInternalServerError,
                                      !.validations = 2]
                /\ UNCHANGED lastAccessAt
           ELSE IF ~updated
           THEN /\ ctl' = [ctl EXCEPT !.pc = "done",
                                      !.status = StatusInternalServerError,
                                      !.validations = 2, !.updateFailed = TRUE]
                /\ UNCHANGED lastAccessAt
           ELSE /\ ctl' = [ctl EXCEPT !.pc = "done",
                                      !.status = StatusOK,
                                      !.body = ctl.accessToken,
                                      !.validations = 2, !.updated = TRUE]
                /\ lastAccessAt' = [lastAccessAt EXCEPT ![res.claim.Id] = now]
    /\ UNCHANGED <<now, sessionVars, ctlFrame, jar>>

NextCtl ==
    \/ \E d \in CtlDeltas : AdvanceCtl(d)
    \/ \E c \in CtlClaims, lag \in Lags : SignInEndpoint(c, lag)
    \/ \E src \in CookieSources : CheckAuthEndpoint(src)
    \/ \E src \in CookieSources : LogoutEndpoint(src)
    \/ \E src \in CookieSources : RefreshStart(src)
    \/ \E updated \in BOOLEAN : RefreshLog(updated)

SpecCtl == InitCtl /\ [][NextCtl]_vars

(***************************************************************************)
(* Properties                                                              *)
(***************************************************************************)
Success(c) == [ok |-> TRUE, err |-> ErrNil, claim |-> c]
InTrace(req, stage) == \E i \in 1..Len(req.trace) : req.trace[i] = stage
\* what ConvertTokenUserClaim returns for the credential of a request
Validation(req) ==
    ConvertTokenUserClaim(StringToken(ExtractAccessToken(req.header), req.cred), now)

\* C1 (as claimed): an access token issued at issuedAt validates at every now
\* in [issuedAt, issuedAt + 15min) and fails with AccessTokenExpired at every
\* now >= issuedAt + 15min, the instant of its exp included.  Stated for the
\* members with small identifiers.
C1_ExpiryBoundary ==
    (last.op = "validate" /\ last.which = "access" /\ user.Id \in SmallIds) =>
        /\ now < issuedAt + AccessLifetime => last.res.ok
        /\ now >= issuedAt + AccessLifetime => last.res.err = AccessTokenExpired

\* C1 (as the code behaves): the access token validates exactly while the
\* clock's Unix second is not after the embedded exp
C1_Observed ==
    (last.op = "validate" /\ last.which = "access" /\ user.Id \in SmallIds) =>
        /\ Unix(now) <= Unix(issuedAt + AccessLifetime) => last.res = Success(user)
        /\ Unix(now) > Unix(issuedAt + AccessLifetime)
              => last.res.err = AccessTokenExpired

\* C2 (as claimed): an HS256 token whose signature does not verify under the
\* secret is answered InvalidAccessToken whatever its exp/nbf and the time;
\* AccessTokenExpired is answered only for correctly signed tokens
C2_SignatureBeforeExpiry ==
    (last.op = "validate" /\ presented.wf /\ presented.alg = "HS256") =>
        /\ ~MethodVerify(presented, JwtSecret) => last.res.err = InvalidAccessToken
        /\ last.res.err = AccessTokenExpired => MethodVerify(presented, JwtSecret)

\* C2 (what holds): such a token never yields a claim
C2_NeverAccepted ==
    (last.op = "validate" /\ ~MethodVerify(presented, JwtSecret)) => ~last.res.ok

\* C3 (as claimed): a well-formed token whose alg is not HS256 is answered
\* InvalidAccessToken, whatever its payload
C3_AlgorithmPinning ==
    (last.op = "validate" /\ presented.wf /\ presented.alg # "HS256") =>
        ~last.res.ok /\ last.res.err = InvalidAccessToken

\* C3 (what holds): such a token never yields a claim
C3_NeverAccepted ==
    (last.op = "validate" /\ presented.alg # "HS256") => ~last.res.ok

\* C4 (as claimed): while the refresh token of the sign-in is unexpired, every
\* RefreshAccessToken on it succeeds and returns an access token that
\* validates to the claim of the sign-in; the refresh token keeps validating;
\* the refresh token generated on the way is not what is returned
C4_RefreshNonRotation ==
    /\ (last.op = "refresh" /\ last.which = "refresh"
           /\ now < pair.RefreshTokenExpires) =>
          /\ last.res.ok
          /\ ConvertTokenUserClaim(last.out, now) = Success(user)
          /\ last.out = last.gen.AccessToken
          /\ last.out # last.gen.RefreshToken
          /\ ConvertTokenUserClaim(pair.RefreshToken, now).ok
    /\ (last.op = "validate" /\ last.which = "refresh"
           /\ now < pair.RefreshTokenExpires) => last.res.ok

\* C4 (what holds): the same, for the members whose identifier the codec
\* round-trips
C4_Observed == user.Id \in SmallIds => C4_RefreshNonRotation

\* C5 (as claimed): validated at once, the access token of a pair returns the
\* claim it was issued for; more than 15 minutes later it returns
\* AccessTokenExpired while the refresh token still refreshes to an access
\* token that validates to the same claim
C5_IssueValidateRoundTrip ==
    /\ (last.op = "validate" /\ last.which = "access" /\ now = issuedAt)
          => last.res = Success(user)
    /\ (last.op = "validate" /\ last.which = "access"
           /\ now > issuedAt + AccessLifetime)
          => last.res.err = AccessTokenExpired
    /\ (last.op = "refresh" /\ last.which = "refresh"
           /\ now > issuedAt + AccessLifetime /\ now < pair.RefreshTokenExpires)
          => last.res.ok /\ ConvertTokenUserClaim(last.out, now) = Success(user)

\* C5 (what holds): for the members whose identifier the codec round-trips,
\* with expiry one whole second after the 15 minutes
C5_Observed ==
    user.Id \in SmallIds =>
        /\ (last.op = "validate" /\ last.which = "access" /\ now = issuedAt)
              => last.res = Success(user)
        /\ (last.op = "validate" /\ last.which = "access"
               /\ now >= issuedAt + AccessLifetime + Seconds(1))
              => last.res.err = AccessTokenExpired
        /\ (last.op = "refresh" /\ last.which = "refresh"
               /\ now > issuedAt + AccessLifetime /\ now < pair.RefreshTokenExpires)
              => last.res.ok /\ ConvertTokenUserClaim(last.out, now) = Success(user)

\* C5 restricted to those members, as claimed: still refuted, at half a second
\* past the 15 minutes
C5_SmallIds == user.Id \in SmallIds => C5_IssueValidateRoundTrip

\* C6 (as claimed): NewUserClaim(claim.ConvertMap()) returns the claim, for
\* every claim with Id > 0
C6_CodecRoundTrip ==
    (last.op = "NewUserClaim" /\ last.which = "roundtrip" /\ user.Id # NatToBits(0))
        => last.res = Success(user)

\* C6 (what holds): the round trip returns the claim whose Id is the float64
\* nearest to the original, and fails when that is 2^64
C6_Observed ==
    (last.op = "NewUserClaim" /\ last.which = "roundtrip") =>
        IF FitsUint(RoundFloat64(user.Id))
        THEN last.res = Success([user EXCEPT !.Id = RoundFloat64(user.Id)])
        ELSE last.res = Failure(ErrJSONUnmarshal)

\* C8 (as claimed): NewUserClaim fails when the map has no id or an id that is
\* no non-negative integer, so no successful claim has an absent id
C8_RequiredId ==
    (last.op = "NewUserClaim" /\ ~HasNumber(mapIn, "id")) => ~last.res.ok

\* C8 (what holds): an absent or null id decodes to Id 0; the other wrong
\* shapes fail; keys outside id, roles, permissions change nothing
C8_Observed ==
    (last.op = "NewUserClaim" /\ last.which = "payload") =>
        /\ ("id" \notin DOMAIN mapIn \/ mapIn["id"].k = "null")
              => (last.res.ok => last.res.claim.Id = NatToBits(0))
        /\ ("id" \in DOMAIN mapIn /\ mapIn["id"].k \in {"neg", "frac", "str", "arr"})
              => ~last.res.ok
        /\ last.res = NewUserClaim([f \in DOMAIN mapIn \cap {"id", "roles", "permissions"}
                                       |-> mapIn[f]])

\* C9 (as claimed): a failing ConvertTokenUserClaim returns InvalidAccessToken
\* or AccessTokenExpired, also when the codec cannot decode the payload
C9_ClosedErrorSet ==
    (last.op = "validate" /\ ~last.res.ok)
        => last.res.err \in {InvalidAccessToken, AccessTokenExpired}

\* C7: on a guarded route the handler is reached only by a request whose
\* Authorization credential validated, and it sees the decoded claim; a
\* request without the header ends with CheckAuth's 401 and no handler
C7_GuardedPipeline ==
    \A r \in Requests :
        LET req == reqs[r]
        IN  req.guarded =>
              /\ (req.pc = "handler" \/ InTrace(req, "handler")) =>
                    /\ req.header # << >>
                    /\ Validation(req).ok
                    /\ req.ctx = SetUserClaim(EmptyContext, Validation(req).claim)
              /\ InTrace(req, "handler") => req.seen = req.ctx
              /\ (req.header = << >> /\ req.pc = "done") =>
                    /\ req.status = StatusUnauthorized
                    /\ req.message = "Please provide valid credentials"
                    /\ req.trace = <<"JwtToken", "CheckAuth">>

C7_Witness ==
    \E r1, r2 \in Requests :
        /\ reqs[r1].guarded /\ InTrace(reqs[r1], "handler")
        /\ reqs[r1].seen = SetUserClaim(EmptyContext, ClaimA)
        /\ reqs[r2].guarded /\ reqs[r2].header = << >>
        /\ reqs[r2].status = StatusUnauthorized

\* C10: once JwtToken has run on a request with a non-empty header, a failed
\* validation (expired or invalid alike) has ended the request with 401, no
\* further handler and no claim in the context; a successful one has put
\* exactly the decoded claim in the context and passed the request on
C10_FailureShortCircuit ==
    \A r \in Requests :
        LET req == reqs[r]
        IN  (req.header # << >> /\ InTrace(req, "JwtToken")) =>
              IF Validation(req).ok
              THEN /\ req.ctx = SetUserClaim(EmptyContext, Validation(req).claim)
                   /\ \/ req.pc = NextOf(req, "JwtToken")
                      \/ Len(req.trace) > 1
              ELSE /\ req.pc = "done"
                   /\ req.status = StatusUnauthorized
                   /\ req.message = Validation(req).err
                   /\ req.trace = <<"JwtToken">>
                   /\ req.ctx = EmptyContext

C10_Witness ==
    \E r1, r2 \in Requests :
        /\ reqs[r1].status = StatusUnauthorized
        /\ reqs[r1].message = AccessTokenExpired
        /\ reqs[r2].status = StatusUnauthorized
        /\ reqs[r2].message = InvalidAccessToken


\* C11: a request without (or with an empty) Authorization header leaves
\* JwtToken for the next handler with its context as it came: the validator
\* was not called, no claim is attached, JwtToken produced no response
C11_AnonymousPassThrough ==
    \A r \in Requests :
        LET req == reqs[r]
        IN  (req.header = << >> /\ InTrace(req, "JwtToken")) =>
              /\ ~req.validated
              /\ req.handed = << >>
              /\ req.ctx = EmptyContext
              /\ \/ req.pc = NextOf(req, "JwtToken") /\ req.status = 0
                 \/ Len(req.trace) > 1 /\ req.trace[2] = NextOf(req, "JwtToken")
              /\ req.message # InvalidAccessToken

C11_Witness ==
    \E r \in Requests :
        /\ reqs[r].header = << >> /\ ~reqs[r].guarded
        /\ reqs[r].trace = <<"JwtToken", "handler">>
        /\ reqs[r].status = StatusOK

\* the headers "Bearer", whitespace, the token, whitespace
Whitespace == {" ", "\t"}
BearerForm(h) ==
    /\ Len(h) >= 2 /\ h[1] = "Bearer"
    /\ \E i \in 2..Len(h) :
          /\ h[i] = "TOK"
          /\ \A j \in 2..Len(h) : j # i => h[j] \in Whitespace

\* C12 (as claimed): for a header "Bearer" + whitespace (spaces or tabs)
\* around a token T, the string handed to ConvertTokenUserClaim is T; a
\* header that does not start with "Bearer" (such as "bearer ...") is not
\* treated as carrying the scheme
C12_CredentialExtraction ==
    \A r \in Requests :
        LET req == reqs[r]
        IN  /\ (req.validated /\ BearerForm(req.header)) => req.handed = <<"TOK">>
            /\ (req.validated /\ req.header[1] # "Bearer") => req.handed = req.header

\* C12 (what holds): with spaces only around T the string handed over is T
C12_Observed ==
    \A r \in Requests :
        LET req == reqs[r]
        IN  (req.validated /\ BearerForm(req.header)
               /\ \A j \in 1..Len(req.header) : req.header[j] # "\t")
              => req.handed = <<"TOK">>

\* C13: in every interleaving a request starts with an empty context, a
\* claim in its context is the one decoded from its own Authorization
\* header, the handler sees that claim, and a claim once attached stays
C13_ContextOwn ==
    \A r \in Requests :
        LET req == reqs[r]
        IN  /\ req.pc \in {"idle", "JwtToken"} => req.ctx = EmptyContext
            /\ req.ctx.has =>
                  /\ req.header # << >>
                  /\ Validation(req).ok
                  /\ req.ctx.claim = Validation(req).claim
            /\ ~req.ctx.has => req.ctx = EmptyContext
            /\ InTrace(req, "handler") => req.seen = req.ctx
C13_ContextKept ==
    \A r \in Requests : reqs[r].ctx.has => reqs'[r].ctx = reqs[r].ctx
C13_RequestIsolation == [](C13_ContextOwn) /\ [][C13_ContextKept]_vars

\* two requests of different members, both served, each with its own claim
C13_Witness ==
    \E r1, r2 \in Requests :
        /\ InTrace(reqs[r1], "handler") /\ InTrace(reqs[r2], "handler")
        /\ reqs[r1].seen = SetUserClaim(EmptyContext, ClaimA)
        /\ reqs[r2].seen = SetUserClaim(EmptyContext, ClaimB)

\* C19: a non-empty header without the literal "Bearer" is handed to
\* ConvertTokenUserClaim as it is, so a bare valid token authenticates the
\* request and its claim is attached
C19_HeaderWithoutBearer ==
    \A r \in Requests :
        LET req == reqs[r]
        IN  (req.header # << >> /\ IndexOf(req.header, "Bearer") = 0
               /\ InTrace(req, "JwtToken")) =>
              /\ req.validated
              /\ req.handed = req.header
              /\ (req.header = <<"TOK">>
                    /\ ConvertTokenUserClaim(CredentialToken(req.cred), now).ok)
                   => req.ctx = SetUserClaim(EmptyContext,
                          ConvertTokenUserClaim(CredentialToken(req.cred), now).claim)

C19_Witness ==
    \E r \in Requests :
        /\ reqs[r].header = <<"TOK">>
        /\ reqs[r].guarded
        /\ reqs[r].trace = <<"JwtToken", "CheckAuth", "handler">>
        /\ reqs[r].seen = SetUserClaim(EmptyContext, ClaimA)


\* the exp a token carries, in Unix seconds
ExpOf(tok) == NumericClaim(UnmarshalToMap(tok.payload), "exp")

\* C14 (as claimed): for the pair of a sign-in at issuedAt the access token's
\* exp is issuedAt + 15 minutes, the refresh token's exp is issuedAt + 7 days,
\* RefreshTokenExpires is the instant of the refresh token's exp, and whenever
\* the access token validates the refresh token validates too
C14_TokenPairExpiries ==
    signedIn =>
        /\ ExpOf(pair.AccessToken) = Unix(issuedAt + AccessLifetime)
        /\ ExpOf(pair.RefreshToken) = Unix(issuedAt + RefreshLifetime)
        /\ pair.RefreshTokenExpires = Seconds(ExpOf(pair.RefreshToken))
        /\ ConvertTokenUserClaim(pair.AccessToken, now).ok
              => ConvertTokenUserClaim(pair.RefreshToken, now).ok

\* C14 (amended): the access token's exp is the Unix second of the first
\* clock reading + 15 minutes; RefreshTokenExpires is a second, not earlier,
\* clock reading + 7 days at the resolution of the clock; the refresh token's
\* exp is the Unix second of RefreshTokenExpires; whenever the access token
\* validates the refresh token validates too
C14_PairExpiries ==
    signedIn =>
        /\ ExpOf(pair.AccessToken) = Unix(issuedAt + AccessLifetime)
        /\ pair.RefreshTokenExpires >= issuedAt + RefreshLifetime
        /\ ExpOf(pair.RefreshToken) = Unix(pair.RefreshTokenExpires)
        /\ (last.op = "validate" /\ last.which = "access" /\ last.res.ok)
              => ConvertTokenUserClaim(pair.RefreshToken, now).ok

\* a pair issued off the whole second with the clock moving between the two
\* readings, its access token then validated
C14_Witness ==
    /\ signedIn
    /\ Seconds(Unix(issuedAt)) # issuedAt
    /\ pair.RefreshTokenExpires # issuedAt + RefreshLifetime
    /\ last.op = "validate" /\ last.which = "access" /\ last.res.ok
    /\ ConvertTokenUserClaim(pair.RefreshToken, now).ok


\* C15 (as claimed): the token of GenerateJwtAccessTokenNeverExpired(C) has
\* no exp, and ConvertTokenUserClaim on it returns C at every time
C15_NonExpiring ==
    /\ presented.wf => "exp" \notin DOMAIN UnmarshalToMap(presented.payload)
    /\ (last.op = "validate" /\ last.which = "service") => last.res = Success(user)

\* C15 (what holds): the token has no exp and never yields AccessTokenExpired;
\* it returns C for the members whose identifier the codec round-trips
C15_Observed ==
    /\ presented.wf => "exp" \notin DOMAIN UnmarshalToMap(presented.payload)
    /\ (last.op = "validate" /\ last.which = "service") =>
          /\ last.res.err # AccessTokenExpired
          /\ user.Id \in SmallIds => last.res = Success(user)

\* C16 (as claimed): no token derived from the sign-in at issuedAt validates
\* later than issuedAt + 7 days + 15 minutes
C16_BoundedSession ==
    (last.op = "validate" /\ last.res.ok)
        => now <= issuedAt + RefreshLifetime + AccessLifetime

\* C16 (what holds): an access token obtained with the refresh token of the
\* pair carries an exp at most 15 minutes after the refresh token's exp
C16_Observed ==
    (last.op = "refresh" /\ last.which = "refresh" /\ last.res.ok)
        => ExpOf(last.out) <= ExpOf(pair.RefreshToken) + AccessTokenMinutes * 60

\* C17 (as claimed): both tokens of a pair carry the same fields;
\* RefreshAccessToken on the unexpired access token returns an access token
\* for the claim of the sign-in; the validation the middleware does accepts
\* the unexpired refresh token with that claim
C17_KindsInterchangeable ==
    /\ signedIn => DOMAIN UnmarshalToMap(pair.AccessToken.payload)
                     = DOMAIN UnmarshalToMap(pair.RefreshToken.payload)
    /\ (last.op = "refresh" /\ last.which = "access"
           /\ now < issuedAt + AccessLifetime) =>
          /\ last.res.ok
          /\ ConvertTokenUserClaim(last.out, now) = Success(user)
    /\ (last.op = "validate" /\ last.which = "refresh"
           /\ now < pair.RefreshTokenExpires) => last.res = Success(user)

\* C17 (what holds): the same, for the members whose identifier the codec
\* round-trips
C17_Observed == user.Id \in SmallIds => C17_KindsInterchangeable


\* C18 (as claimed): after sign-in and logout, the refresh token of the
\* sign-in, presented again before its expiry, is accepted: the check
\* endpoint answers 204 and the refresh endpoint (its last-access update
\* succeeding) 200 with a new access token
C18_LogoutDoesNotRevoke ==
    (jar.cleared /\ ctl.pc = "done" /\ ctl.src = "kept"
       /\ now < pair.RefreshTokenExpires /\ ~ctl.updateFailed) =>
        /\ ctl.op = "check" => ctl.status = StatusNoContent
        /\ ctl.op = "refresh" =>
              /\ ctl.status = StatusOK
              /\ ctl.body.wf
              /\ ctl.body = ctl.accessToken

\* C18 (what holds): the same, for the members whose identifier the codec
\* round-trips
C18_Observed == user.Id \in SmallIds => C18_LogoutDoesNotRevoke

\* C18 (what holds): a logout request changes nothing on the server
C18_LogoutFrame ==
    [][(ctl'.op = "logout" /\ ctl' # ctl)
          => UNCHANGED <<lastAccessAt, sessionVars, now>>]_vars

\* C20: refreshAccessToken answers 400 and validates nothing without a
\* cookie; otherwise RefreshAccessToken comes first, the second validation
\* and the last-access update (for the Id of the claim) only after it
\* succeeded; the answer is 200 with the new access token exactly when all
\* three succeeded, and an error when the second validation or the update
\* failed although a new access token had been generated
C20_RefreshOrdering ==
    ctl.op = "refresh" =>
        /\ ~ctl.has => /\ ctl.pc = "done" /\ ctl.status = StatusBadRequest
                       /\ ctl.validations = 0 /\ ~ctl.generated /\ ~ctl.updated
        /\ ctl.has => ctl.validations >= 1
        /\ ctl.generated = ctl.accessToken.wf
        /\ ctl.validations = 2 => ctl.generated /\ ctl.pc = "done"
        /\ (ctl.updated \/ ctl.updateFailed) => ctl.validations = 2
        /\ ctl.updated =>
              lastAccessAt[ConvertTokenUserClaim(ctl.value, now).claim.Id] = now
        /\ ctl.pc = "done" =>
              /\ (ctl.status = StatusOK) = ctl.updated
              /\ ctl.status = StatusOK => ctl.body = ctl.accessToken /\ ctl.body.wf
              /\ (ctl.has /\ ~ctl.generated) =>
                    /\ ctl.status = StatusInternalServerError
                    /\ ctl.validations = 1
              /\ (ctl.generated /\ ~ctl.updated) =>
                    ctl.status = StatusInternalServerError

\* a refresh token that expired between the two validations: a new access
\* token was generated, the answer is an error, no update was made
C20_Witness ==
    /\ ctl.op = "refresh" /\ ctl.pc = "done"
    /\ ctl.generated /\ ctl.validations = 2
    /\ ~ctl.updated /\ ~ctl.updateFailed
    /\ ctl.status = StatusInternalServerError
    /\ lastAccessAt = NoAccess

====
